---- MODULE Spec2Model ----
(***************************************************************************)
(* Hydro Journal: the browser-side commit orchestrator (github-api.js), the *)
(* entry submission form (submit.js), experiment creation (site.js) and the *)
(* offline cache (docs/sw.js), against a remote git repository.             *)
(*                                                                          *)
(* Every `await` of the code is one step of a page: the step is the remote  *)
(* call, its answer, and the code that runs up to the next await.  A call   *)
(* that fails was not applied by the remote.                                *)
(***************************************************************************)
EXTENDS Integers, Sequences, FiniteSets, TLC

\* ------------------------------------------------------------------ bounds
MaxOps == 2          \* submissions and experiment creations started in all
MaxPhotos == 1       \* photos selected on one page
MaxVersion == 2      \* versions of the site deployed
MaxPuts == 2         \* cache.put calls under way at once
MaxFormOps == 1      \* submissions of the page whose form is used freely
MaxViews == 3        \* detail views the browsing window renders
MaxLoads == 2        \* loadEntries calls under way at once
MaxFetches == 2      \* requests of validate() under way at once

Pages == {1, 2}                  \* open browser pages
ExperimentIds == {"a", "b"}      \* slugs typed or selected
Dates == {1, 2}                  \* entry dates; ISO dates order as day numbers
NoDate == 0                      \* the empty value of the date input

\* ------------------------------------------------------------- file names
\* An entry file name `${date}.json` or `${date}_${digits}.json` is the pair of
\* its date and the digits of its suffix (<<>> when it has none).
FileName(date, digits) == [date |-> date, digits |-> digits]

RECURSIVE DigitsOf(_)
\* String(n): the decimal digits of n
DigitsOf(n) == IF n < 10 THEN <<n>> ELSE Append(DigitsOf(n \div 10), n % 10)

RECURSIVE PadStart(_, _)
\* s.padStart(len, '0')
PadStart(s, len) == IF Len(s) >= len THEN s ELSE PadStart(<<0>> \o s, len)

RECURSIVE ParseInt(_)
\* parseInt of a string of digits
ParseInt(s) == IF s = <<>> THEN 0
               ELSE 10 * ParseInt(SubSeq(s, 1, Len(s) - 1)) + s[Len(s)]

Max(a, b) == IF a >= b THEN a ELSE b

RECURSIVE DigitsLess(_, _)
\* the digits of two suffixes as the strings compare: '.', which follows the
\* digits, is smaller than every digit, so a proper prefix comes first
DigitsLess(s, t) ==
    IF s = <<>> THEN t # <<>>
    ELSE IF t = <<>> THEN FALSE
    ELSE IF s[1] # t[1] THEN s[1] < t[1]
    ELSE DigitsLess(Tail(s), Tail(t))

\* f < g as Array.prototype.sort compares two file names: by code units; equal
\* length dates first, then '.' (no suffix) before '_' (a suffix)
NameLess(f, g) ==
    IF f.date # g.date THEN f.date < g.date
    ELSE IF f.digits = <<>> THEN g.digits # <<>>
    ELSE IF g.digits = <<>> THEN FALSE
    ELSE DigitsLess(f.digits, g.digits)

SeqToSet(s) == {s[i] : i \in 1..Len(s)}

\* ------------------------------------------------------------------ paths
Path(dir, exp, kind, date, digits) ==
    [dir |-> dir, exp |-> exp, kind |-> kind, date |-> date, digits |-> digits]

\* 'docs/data/experiments.json'
ExperimentsPath == Path("docs/data", "", "experiments.json", 0, <<>>)
\* `docs/data/experiments/${id}/meta.json`
MetaPath(id) == Path("docs/data/experiments", id, "meta.json", 0, <<>>)
\* `docs/data/experiments/${id}/entries/index.json`
NewIndexPath(id) == Path("docs/data/experiments", id, "entries/index.json", 0, <<>>)
\* `data/experiments/${experimentId}/entries/index.json`
IndexPath(x) == Path("data/experiments", x, "entries/index.json", 0, <<>>)
\* `data/experiments/${experimentId}/entries/${entryFilename}`
EntryPath(x, f) == Path("data/experiments", x, "entries/", f.date, f.digits)
\* an image path without the experiment's directory
ImagePathFlat(x, date, i) == Path("images", "", ".jpg", date, PadStart(DigitsOf(i + 1), 3))
\* `images/${experimentId}/${date}_${seq}.jpg`, seq = String(i + 1).padStart(3, '0')
ImagePath(x, date, i) == Path("images", x, ".jpg", date, PadStart(DigitsOf(i + 1), 3))

\* --------------------------------------------------------------- documents
Doc(t, list, date, sub) == [t |-> t, list |-> list, date |-> date, sub |-> sub]
\* { experiments: [...] }: the list of experiment ids
ExperimentsDoc(ids) == Doc("experiments", ids, 0, 0)
MetaDoc(id, sub) == Doc("meta", <<id>>, 0, sub)
\* { entries: [...] }: the list of entry file names
IndexDoc(names) == Doc("index", names, 0, 0)
\* { date, time, notes, images, measurements }: sub stands for what was typed
EntryDoc(date, images, sub) == Doc("entry", images, date, sub)
\* the base64 JPEG of photo i of submission sub
ImageDoc(sub, i) == Doc("jpeg", <<i>>, 0, sub)

File(path, content, encoding) ==
    [path |-> path, content |-> content, encoding |-> encoding]
NoEncoding == "undefined"

\* ------------------------------------------------- submit.js: file name
\* f.startsWith(date): a date is followed by '.' or '_', never by a digit or '-'
StartsWith(f, date) == f.date = date

\* f.match(/_(\d+)\.json$/)
MatchesSeq(f) == f.digits # <<>>

RECURSIVE MaxSeq(_, _)
\* the loop over `existing`, from maxSeq
MaxSeq(existing, maxSeq) ==
    IF existing = <<>> THEN maxSeq
    ELSE LET f == Head(existing) IN
         MaxSeq(Tail(existing),
                IF MatchesSeq(f) THEN Max(maxSeq, ParseInt(f.digits))
                ELSE Max(maxSeq, 1))

\* the entry file name chosen for `date` against the index that was read
EntryFilename(entries, date) ==
    LET existing == SelectSeq(entries, LAMBDA f : StartsWith(f, date)) IN
    IF Len(existing) > 0
    THEN FileName(date, PadStart(DigitsOf(MaxSeq(existing, 0) + 1), 2))
    ELSE FileName(date, <<>>)

\* existingIndex.entries.push(entryFilename); existingIndex.entries.sort()
PushAndSort(entries, f) == SortSeq(Append(entries, f), NameLess)

\* ------------------------------------------------------------------ state
VARIABLES
    ref,            \* refs/heads/main: the sha of the head commit
    commits,        \* the remote's commit objects; a sha is an index
    trees,          \* the remote's tree objects
    blobs,          \* the remote's blob objects
    ops,            \* the locals of every onSubmit / createNewExperiment run
    cur,            \* cur[p]: the run in flight on page p, 0 when none
    pc,             \* pc[p]: the await page p is suspended at
    progress,       \* progress[p]: the steps shown in #submit-progress
    status,         \* status[p]: the alert shown in #new-exp-status
    disabled,       \* disabled[p]: submitBtn.disabled
    selectedFiles,  \* selectedFiles[p]: how many photos are selected
    experiments,    \* experiments[p]: site.js's in-memory list
    fields,         \* fields[p]: the notes and measurements typed, "" when empty
    attempt,        \* attempt[p]: what the last submit event of page p found
                    \* in the settings and in the form
    swState,        \* the service worker: installing, installed, activated,
                    \* or redundant when its install failed
    cacheNames,     \* the names of the caches that exist
    cache,          \* cache[u]: the version of u stored under CACHE_NAME, 0 none
    puts,           \* the cache.put calls started and not yet done
    online,         \* whether the network is available
    version,        \* the version of the site the server serves
    request,        \* the page's request in flight
    answer,         \* what the page got for its last request, until its next
    latest,         \* latest[u]: the version of the last ok response that
                    \* networkFirst returned for u, 0 when none
    hash,           \* window.location.hash.slice(1) of the browsing window
    ready,          \* init of site.js is past its await: the listeners are bound
    initError,      \* err.message caught by loadExperiments, "" when none
    contentEl,      \* what #content shows
    entriesArea,    \* what the #entries-area of the document shows
    chartArea,      \* what the #chart-area of the document shows
    currentExperiment,  \* the id of currentExperiment, "" for null
    searchBarHidden,    \* #search-bar has the class hidden
    query,          \* searchInput.value
    loads,          \* the loadEntries calls suspended at an await
    scripts,        \* the Chart.js script elements whose onload is to come
    chartLoaded,    \* typeof Chart !== 'undefined'
    views,          \* how many detail views were rendered so far
    localStorage,   \* the items of the three keys of Auth, <<>> for none
    userFetches,    \* the requests of validate() to api.github.com/user that
                    \* have not been answered
    validation      \* what the last call of validate() that returned, returned

pageVars == <<ref, commits, trees, blobs, ops, cur, pc, progress, status,
              disabled, selectedFiles, experiments, fields, attempt>>
workerVars == <<swState, cacheNames, cache, puts, online, version, request,
                answer, latest>>
viewVars == <<hash, ready, initError, contentEl, entriesArea, chartArea,
              currentExperiment, searchBarHidden, query, loads, scripts,
              chartLoaded, views>>
authVars == <<localStorage, userFetches, validation>>
vars == <<pageVars, workerVars, viewVars, authVars>>
\* what a step of a page leaves alone unless it is a submit event
restVars == <<workerVars, attempt, viewVars, authVars>>

remote == <<ref, commits, trees, blobs>>

\* --------------------------------------------------------- the repository
\* the paths of tree t, each with its blob
TreeFiles(t) == trees[t].files
\* the paths at commit c
FilesAt(c) == TreeFiles(commits[c].tree)
\* the document at path in commit c
DocAt(c, path) == blobs[FilesAt(c)[path]].content
Exists(c, path) == path \in DOMAIN FilesAt(c)

\* a tree of the entries alone, as POST git/trees builds it without base_tree
TreeWithoutBase(base, entries) ==
    [base  |-> 0,
     tree  |-> entries,
     files |-> [p \in {entries[k].path : k \in 1..Len(entries)} |->
                  entries[CHOOSE k \in 1..Len(entries) : entries[k].path = p].sha]]

\* a tree on the base that takes the last entry alone
TreeWithLastEntry(base, entries) ==
    LET e == entries[Len(entries)] IN
    [base  |-> base,
     tree  |-> <<e>>,
     files |-> [p \in DOMAIN trees[base].files \cup {e.path} |->
                  IF p = e.path THEN e.sha ELSE trees[base].files[p]]]

\* POST git/trees with base_tree: the base's paths, each entry of `tree`
\* replacing or adding its own path
TreeWith(base, entries) ==
    LET paths == {entries[k].path : k \in 1..Len(entries)}
        last(p) == CHOOSE k \in 1..Len(entries) :
                       /\ entries[k].path = p
                       /\ \A j \in 1..Len(entries) : entries[j].path = p => j <= k
    IN [base  |-> base,
        tree  |-> entries,
        files |-> [p \in DOMAIN TreeFiles(base) \cup paths |->
                      IF p \in paths THEN entries[last(p)].sha
                      ELSE TreeFiles(base)[p]]]

RECURSIVE Ancestors(_)
\* c and the commits before it
Ancestors(c) ==
    {c} \cup (IF commits[c].parents = <<>> THEN {}
              ELSE Ancestors(commits[c].parents[1]))

\* PATCH git/refs/heads/main with force: true: the remote takes any commit
RefUpdateForced(sha) == TRUE

\* PATCH git/refs/heads/main with { sha } alone: not forced, so the remote
\* takes it only as a fast-forward of the ref
RefUpdateAccepted(sha) == ref \in Ancestors(sha)

\* ------------------------------------------------------ github-api.js
\* an answer to GET contents/<path>: its status, and whether the text of its
\* body holds "404"
Response(st, body404) == [status |-> st, body404 |-> body404]
NoResponse == Response(0, FALSE)

\* what the remote may answer for path at the head: the file, 404 when it is
\* not there, or a refusal (403: rate limit, permissions) with any body
Responses(path) ==
    {IF Exists(ref, path) THEN Response(200, FALSE) ELSE Response(404, FALSE)}
    \cup {Response(403, b) : b \in BOOLEAN}

\* res.ok
Ok(res) == res.status = 200

\* err.message.includes('404'), err.message = `GitHub API ${res.status}: ${body}`
MessageIncludes404(res) == res.status = 404 \/ res.body404

\* getFileContent throws
ReadThrows(res) == ~Ok(res) /\ ~MessageIncludes404(res)

\* getFileContent: the list of the document read, <<>> standing for null
\* (both callers replace null by an empty list)
ReadList(res, path) == IF Ok(res) THEN DocAt(ref, path).list ELSE <<>>

\* ------------------------------------------------------------ the runs
\* the locals of one run of onSubmit ("submit") or createNewExperiment
\* ("create"); sub, the run's number, stands for what the operator typed
NewOp(kind, page, exp, date, sub) ==
    [kind |-> kind, page |-> page, exp |-> exp, date |-> date, sub |-> sub,
     files |-> <<>>,             \* files
     imagePaths |-> <<>>,        \* imagePaths
     read |-> NoResponse,        \* the answer getFileContent got
     existingIndex |-> <<>>,     \* existingIndex.entries / expData.experiments
     entryFilename |-> FileName(NoDate, <<>>),
     headSha |-> 0, baseTreeSha |-> 0, treeEntries |-> <<>>,
     newTree |-> 0, newCommit |-> 0,
     calls |-> <<>>,             \* the remote calls commitFiles issued, each
                                 \* with how it ended
     refBefore |-> 0,            \* the ref as the remote moved it: from, to
     refAfter |-> 0,
     outcome |-> "running"]

\* a remote call and how it ended: "ok", "failed" (no answer, or an answer
\* that is not ok), "rejected" (a ref update that is no fast-forward)
Call(name, result) == <<name, result>>

\* a submit event: what onSubmit finds in the settings and in the form
Attempt(token, owner, x, d) ==
    [made |-> TRUE, token |-> token, owner |-> owner, exp |-> x, date |-> d]
NoAttempt == [made |-> FALSE]

\* addProgress(progressEl, message)
AddProgress(steps, message) == Append(steps, message)

\* ------------------------------------------------------------ docs/sw.js
CACHE_NAME == "hydro-journal-v2"
\* the name the cache had in the version before
OldCacheName == "hydro-journal-v1"

\* self.location.hostname, and the other hosts the pages ask
Self == "self"
Cdn == "cdn"
GitHub == "api.github.com"

Url(host, path) == [host |-> host, path |-> path]
IndexHtml == Url(Self, <<"index.html">>)
Icon192 == Url(Self, <<"icons", "icon-192.png">>)
ExperimentsJson == Url(Self, <<"data", "experiments.json">>)
ChartJs == Url(Cdn, <<"npm", "chart.js">>)
GitRefs == Url(GitHub, <<"repos", "git", "refs">>)
Urls == {IndexHtml, Icon192, ExperimentsJson, ChartJs, GitRefs}

\* APP_SHELL: of its twelve URLs a page and an icon
APP_SHELL == {IndexHtml, Icon192}

Req(method, url) == [method |-> method, url |-> url]
Requests ==
    {Req("GET", u) : u \in Urls}
    \cup {Req("PATCH", GitRefs), Req("POST", ExperimentsJson)}

\* url.pathname.match(/\/icons\//)
MatchesIcons(path) == \E k \in 1..(Len(path) - 1) : path[k] = "icons"

\* the fetch listener of the version before: network-first for data and
\* images only, cache-first for everything else
StrategyV1(r) ==
    IF r.method # "GET" THEN "none"
    ELSE IF r.url.host = GitHub THEN "none"
    ELSE IF \E k \in 1..(Len(r.url.path) - 1) : r.url.path[k] \in {"data", "images"}
         THEN "networkFirst"
    ELSE "cacheFirst"

\* a fetch listener without its api.github.com test
StrategyAnyHost(r) ==
    IF r.method # "GET" THEN "none"
    ELSE IF r.url.host # Self \/ MatchesIcons(r.url.path) THEN "cacheFirst"
    ELSE "networkFirst"

\* the fetch listener: what it answers the request with, "none" when it
\* returns without event.respondWith
Strategy(r) ==
    IF r.method # "GET" THEN "none"
    ELSE IF r.url.host = GitHub THEN "none"
    ELSE IF r.url.host # Self \/ MatchesIcons(r.url.path) THEN "cacheFirst"
    ELSE "networkFirst"

\* a response: where it came from, its status, the version of its body
Answer(r, from, st, v, offline, had) ==
    [req |-> r, from |-> from, status |-> st, version |-> v,
     offline |-> offline,   \* the network was unavailable when the request
                            \* was made and whenever it was fetched
     controlled |-> request.controlled,
     installed |-> request.installed,
     had |-> had]           \* what the caches held for it when it was answered
NoRequest == [stage |-> "idle"]
NoAnswer == [from |-> "none"]

\* a fallback that never looks into the caches
Always503(v) == [from |-> "offline", status |-> 503, version |-> 0]

\* cached || new Response('Offline', { status: 503 }), cached the version
\* caches.match found, 0 when it found none
CachedOr503(v) ==
    IF v # 0 THEN [from |-> "cache", status |-> 200, version |-> v]
    ELSE [from |-> "offline", status |-> 503, version |-> 0]

\* the worker is being installed, the caches of the origin one of sets
WorkerInitWith(sets) ==
    /\ swState = "installing"
    /\ cacheNames \in sets
    /\ cache = [u \in Urls |-> 0]
    /\ puts = {}
    /\ online = TRUE
    /\ version = 1
    /\ request = NoRequest
    /\ answer = NoAnswer
    /\ latest = [u \in Urls |-> 0]

\* the worker replaces the version before, whose cache exists
WorkerInit == WorkerInitWith({{OldCacheName}})

\* the install listener: caches.open(CACHE_NAME), then cache.addAll(APP_SHELL),
\* which stores every URL or, when one cannot be fetched, none
Install ==
    /\ swState = "installing"
    /\ cacheNames' = cacheNames \cup {CACHE_NAME}
    /\ \E fetched \in BOOLEAN :
        IF online /\ fetched
        THEN /\ cache' = [u \in Urls |-> IF u \in APP_SHELL THEN version ELSE cache[u]]
             /\ swState' = "installed"
        ELSE /\ swState' = "redundant"
             /\ UNCHANGED cache
    /\ UNCHANGED <<puts, online, version, request, answer, latest>>

\* the page registers the worker again after a failed install
Register ==
    /\ swState = "redundant"
    /\ swState' = "installing"
    /\ UNCHANGED <<cacheNames, cache, puts, online, version, request, answer, latest>>

\* a cleanup that knows only the name of the version before
StaleV1(key) == key = OldCacheName

\* keys.filter((key) => key !== CACHE_NAME)
Stale(key) == key # CACHE_NAME

\* the activate listener (skipWaiting: right after install): every cache with
\* another name is deleted; clients.claim()
Activate ==
    /\ swState = "installed"
    /\ cacheNames' = {key \in cacheNames : ~Stale(key)}
    /\ swState' = "activated"
    /\ UNCHANGED <<cache, puts, online, version, request, answer, latest>>

\* the network comes and goes; the site is deployed again
Network ==
    /\ online' = ~online
    /\ UNCHANGED <<swState, cacheNames, cache, puts, version, request, answer, latest>>

Deploy ==
    /\ version < MaxVersion
    /\ version' = version + 1
    /\ UNCHANGED <<swState, cacheNames, cache, puts, online, request, answer, latest>>

\* a page makes a request; an activated worker gets the fetch event
PageRequest ==
    /\ request = NoRequest
    /\ Cardinality(puts) < MaxPuts
    /\ \E r \in Requests :
        LET controlled == swState = "activated"
            how == IF controlled THEN Strategy(r) ELSE "none"
        IN request' = [stage |-> how, req |-> r,
                       controlled |-> controlled,
                       installed |-> swState \in {"installed", "activated"},
                       offline |-> ~online]
    /\ answer' = NoAnswer
    /\ UNCHANGED <<swState, cacheNames, cache, puts, online, version, latest>>

\* a request the worker does not answer goes to the network
Direct ==
    /\ request.stage = "none"
    /\ \E st \in {200, 500} :
        answer' = IF online
                  THEN Answer(request.req, "network", st, version, FALSE,
                              cache[request.req.url])
                  ELSE Answer(request.req, "error", 0, 0, request.offline,
                              cache[request.req.url])
    /\ request' = NoRequest
    /\ UNCHANGED <<swState, cacheNames, cache, puts, online, version, latest>>

\* cacheFirst up to its fetch: caches.match(request)
CacheFirstMatch ==
    /\ request.stage = "cacheFirst"
    /\ LET cached == cache[request.req.url] IN
       IF cached # 0
       THEN /\ answer' = Answer(request.req, "cache", 200, cached,
                                request.offline, cached)
            /\ request' = NoRequest
       ELSE /\ request' = [request EXCEPT !.stage = "cacheFirstFetch"]
            /\ UNCHANGED answer
    /\ UNCHANGED <<swState, cacheNames, cache, puts, online, version, latest>>

\* fetch(request) settles: an ok response is put into the cache, without
\* waiting for the put, and any response is returned; catch: 503
Fetched(stage, fallback) ==
    /\ request.stage = stage
    /\ IF online
       THEN \E st \in {200, 500} :
            /\ puts' = IF st = 200 THEN puts \cup {<<request.req.url, version>>}
                       ELSE puts
            /\ answer' = Answer(request.req, "network", st, version, FALSE,
                                cache[request.req.url])
            /\ request' = NoRequest
       ELSE /\ fallback
            /\ UNCHANGED puts
    /\ latest' = IF online /\ stage = "networkFirst" /\ answer'.status = 200
                 THEN [latest EXCEPT ![request.req.url] = version]
                 ELSE latest
    /\ UNCHANGED <<swState, cacheNames, cache, online, version>>

CacheFirstFetch ==
    Fetched("cacheFirstFetch",
            /\ answer' = Answer(request.req, "offline", 503, 0, request.offline,
                                cache[request.req.url])
            /\ request' = NoRequest)

\* networkFirst up to its catch
NetworkFirstFetch ==
    Fetched("networkFirst",
            /\ request' = [request EXCEPT !.stage = "networkFirstCatch"]
            /\ UNCHANGED answer)

\* the catch of networkFirst: caches.match(request), or 503
NetworkFirstCatch ==
    /\ request.stage = "networkFirstCatch"
    /\ LET cached == cache[request.req.url]
           res == CachedOr503(cached)
       IN answer' = Answer(request.req, res.from, res.status, res.version,
                           request.offline, cached)
    /\ request' = NoRequest
    /\ UNCHANGED <<swState, cacheNames, cache, puts, online, version, latest>>

\* a cache.put is done
PutDone ==
    /\ \E put \in puts :
        /\ cache' = [cache EXCEPT ![put[1]] = put[2]]
        /\ puts' = puts \ {put}
    /\ UNCHANGED <<swState, cacheNames, online, version, request, answer, latest>>

\* ------------------------------------------ site.js: the browsing view
\* the window whose script is followed: let experiments = []
Window == 1

\* what the location hash may be: no id, a known id, an id that is not listed
Hashes == ExperimentIds \cup {"", "x"}
\* what the operator types into the search box
Queries == {"", "a", "z"}
\* data.experiments || [] of the document that is served
ServedLists == {<<>>, <<"a", "b">>}
\* the messages of the errors loadExperiments catches: fetch rejected, !res.ok
LoadErrors == {"Failed to fetch", "Failed to load experiments"}

\* contentEl.innerHTML: which template, for detail the experiment and the
\* number of the rendering (its #entries-area and #chart-area are new
\* elements), for the list the cards
Content(kind, exp, cards, view) ==
    [kind |-> kind, exp |-> exp, cards |-> cards, view |-> view]
Blank == Content("blank", "", <<>>, 0)
\* no #entries-area, no #chart-area in the document
NoArea == [text |-> "", of |-> ""]
NoChartArea == [attached |-> FALSE, canvas |-> FALSE, chart |-> ""]

\* the test of filterExperiments on an experiment whose id is one letter
Includes(id, q) == q = id
\* filterExperiments(query)
FilterExperiments(list, q) ==
    IF q = "" THEN list ELSE SelectSeq(list, LAMBDA id : Includes(id, q))

\* showExperimentList()
ShowExperimentList(list, q) ==
    /\ currentExperiment' = ""
    /\ searchBarHidden' = FALSE
    /\ contentEl' = IF list = <<>> THEN Content("empty", "", <<>>, 0)
                    ELSE Content("list", "", FilterExperiments(list, q), 0)
    /\ entriesArea' = NoArea
    /\ chartArea' = NoChartArea
    /\ UNCHANGED <<loads, views>>

\* showExperiment(id) up to its await: loadEntries(exp) has taken the
\* #entries-area of this rendering and fetches the index
ShowExperiment(id, list) ==
    IF id \notin SeqToSet(list)
    THEN /\ contentEl' = Content("notFound", "", <<>>, 0)
         /\ entriesArea' = NoArea
         /\ chartArea' = NoChartArea
         /\ UNCHANGED <<currentExperiment, searchBarHidden, loads, views>>
    ELSE /\ views < MaxViews
         /\ Cardinality(loads) < MaxLoads
         /\ currentExperiment' = id
         /\ searchBarHidden' = TRUE
         /\ views' = views + 1
         /\ contentEl' = Content("detail", id, <<>>, views + 1)
         /\ entriesArea' = [text |-> "Loading entries...", of |-> id]
         /\ chartArea' = [attached |-> TRUE, canvas |-> FALSE, chart |-> ""]
         /\ loads' = loads \cup {[exp |-> id, view |-> views + 1, at |-> "index"]}

\* onHashChange() with the hash h
OnHashChange(h, list, q) ==
    IF h # "" THEN ShowExperiment(h, list) ELSE ShowExperimentList(list, q)

\* the catch of loadExperiments: 'Could not load experiments.' and err.message
CouldNotLoad(err) == Content("loadError", err, <<>>, 0)

\* init(): loadExperiments() settles, the listeners are bound, onHashChange().
\* All of it runs without an await in between, and every branch of
\* showExperimentList and of showExperiment assigns contentEl.innerHTML: what
\* the catch wrote, CouldNotLoad(err), is replaced before init returns
LoadExperiments ==
    /\ ~ready
    /\ \E err \in LoadErrors \cup {""} :
       \E list \in IF err = "" THEN ServedLists ELSE {experiments[Window]} :
           /\ experiments' = [experiments EXCEPT ![Window] = list]
           /\ initError' = err
           /\ OnHashChange(hash, list, query)
    /\ ready' = TRUE
    /\ UNCHANGED <<hash, query, scripts, chartLoaded>>

\* the hash changes: a card or the back button is clicked, or the operator
\* edits the address; the hashchange listener is there once init bound it
Navigate ==
    /\ \E h \in Hashes \ {hash} :
        /\ hash' = h
        /\ IF ready
           THEN OnHashChange(h, experiments[Window], query)
           ELSE UNCHANGED <<contentEl, entriesArea, chartArea, currentExperiment,
                            searchBarHidden, loads, views>>
    /\ UNCHANGED <<ready, initError, query, scripts, chartLoaded, experiments>>

\* the operator types into the search box, which can be done while the
\* search bar is shown: onSearch(), once init bound it
OnSearch ==
    /\ ~searchBarHidden
    /\ \E q \in Queries \ {query} :
        /\ query' = q
        /\ IF ready /\ currentExperiment = ""
           THEN ShowExperimentList(experiments[Window], q)
           ELSE UNCHANGED <<contentEl, entriesArea, chartArea, currentExperiment,
                            searchBarHidden, loads, views>>
    /\ UNCHANGED <<hash, ready, initError, scripts, chartLoaded, experiments>>

\* the element entriesArea that the call l of loadEntries holds is still the
\* #entries-area of the document
Attached(l) == contentEl.kind = "detail" /\ contentEl.view = l.view

\* what a call of loadEntries writes into the entriesArea it holds becomes
\* visible when that element is still in the document
WriteEntries(l, text) ==
    entriesArea' = IF Attached(l) THEN [text |-> text, of |-> l.exp]
                   ELSE entriesArea

\* loadEntries: the fetch of index.json settles
IndexFetched ==
    /\ \E l \in loads : \E res \in {"failed", "empty", "names"} :
        /\ l.at = "index"
        /\ IF res = "names"
           THEN /\ loads' = (loads \ {l}) \cup {[l EXCEPT !.at = "entries"]}
                /\ UNCHANGED entriesArea
           ELSE /\ loads' = loads \ {l}
                /\ WriteEntries(l, IF res = "failed" THEN "Could not load entries."
                                   ELSE "No entries yet.")
    /\ UNCHANGED <<hash, ready, initError, contentEl, chartArea, currentExperiment,
                   searchBarHidden, query, scripts, chartLoaded, views, experiments>>

\* buildChart(entries), the entries those of experiment x: a chart on the
\* canvas #measurements-chart of the document when there is one; Chart.js
\* throws for a canvas that carries a chart
BuildChart(area, x) ==
    IF area.canvas /\ area.chart = "" THEN [area EXCEPT !.chart = x] ELSE area

\* renderChart(entries, exp) with at least two measured entries of x
RenderChart(x) ==
    IF ~chartArea.attached
    THEN UNCHANGED <<chartArea, scripts>>
    ELSE LET canvas == [attached |-> TRUE, canvas |-> TRUE, chart |-> ""] IN
         IF chartLoaded
         THEN chartArea' = BuildChart(canvas, x) /\ UNCHANGED scripts
         ELSE chartArea' = canvas /\ scripts' = scripts \cup {x}

\* loadEntries: Promise.all of the entry fetches settles; with fewer than two
\* measured entries renderChart returns at once
EntriesFetched ==
    /\ \E l \in loads : \E res \in {"failed", "few", "series"} :
        /\ l.at = "entries"
        /\ loads' = loads \ {l}
        /\ WriteEntries(l, IF res = "failed" THEN "Could not load entries."
                           ELSE "timeline")
        /\ IF res = "series" THEN RenderChart(l.exp)
           ELSE UNCHANGED <<chartArea, scripts>>
    /\ UNCHANGED <<hash, ready, initError, contentEl, currentExperiment,
                   searchBarHidden, query, chartLoaded, views, experiments>>

\* a Chart.js script element has loaded: script.onload, or failed to load
ScriptLoaded ==
    /\ \E x \in scripts : \E ok \in BOOLEAN :
        /\ scripts' = scripts \ {x}
        /\ chartLoaded' = (chartLoaded \/ ok)
        /\ chartArea' = IF ok THEN BuildChart(chartArea, x) ELSE chartArea
    /\ UNCHANGED <<hash, ready, initError, contentEl, entriesArea,
                   currentExperiment, searchBarHidden, query, loads, views,
                   experiments>>

\* the browsing window after init with the list a
ViewLoaded ==
    /\ hash = "" /\ ready = TRUE /\ initError = ""
    /\ contentEl = Content("list", "", <<"a">>, 0)
    /\ entriesArea = NoArea /\ chartArea = NoChartArea
    /\ currentExperiment = "" /\ searchBarHidden = FALSE /\ query = ""
    /\ loads = {} /\ scripts = {} /\ chartLoaded = FALSE /\ views = 0

\* the browsing window when its script starts, at any hash
ViewStart ==
    /\ hash \in Hashes /\ ready = FALSE /\ initError = ""
    /\ contentEl = Blank
    /\ entriesArea = NoArea /\ chartArea = NoChartArea
    /\ currentExperiment = "" /\ searchBarHidden = FALSE /\ query = ""
    /\ loads = {} /\ scripts = {} /\ chartLoaded = FALSE /\ views = 0

\* ------------------------------------------------------ site.js: Auth
STORAGE_KEY == "hydro_journal_token"
OWNER_KEY == "hydro_journal_owner"
REPO_KEY == "hydro_journal_repo"
Keys == {STORAGE_KEY, OWNER_KEY, REPO_KEY}

\* what is passed to the setters: nothing, blanks, a word, a word in blanks
Typed == {"", " ", "w", " w "}

\* String.prototype.trim()
Trim(v) == CASE v = " " -> "" [] v = " w " -> "w" [] OTHER -> v

\* localStorage.getItem(key): <<>> stands for null, <<v>> for the string v
GetItem(s, key) == s[key]
\* localStorage.setItem(key, v), localStorage.removeItem(key)
SetItem(s, key, v) == [s EXCEPT ![key] = <<v>>]
RemoveItem(s, key) == [s EXCEPT ![key] = <<>>]

\* item || other: null and '' are falsy
OrElse(item, other) == IF item = <<>> \/ item = <<"">> THEN other ELSE item[1]

GetToken(s) == OrElse(GetItem(s, STORAGE_KEY), "")
GetOwner(s) == OrElse(GetItem(s, OWNER_KEY), "")
GetRepo(s) == OrElse(GetItem(s, REPO_KEY), "hydro_journal")

SetToken(s, token) == SetItem(s, STORAGE_KEY, Trim(token))
SetOwner(s, owner) == SetItem(s, OWNER_KEY, Trim(owner))
SetRepo(s, repo) == SetItem(s, REPO_KEY, Trim(repo))

\* a clearToken that empties the whole store
ClearAll(s) == [key \in Keys |-> <<>>]

\* clearToken()
ClearToken(s) == RemoveItem(s, STORAGE_KEY)

\* the results of validate()
Invalid(error) == [valid |-> FALSE, error |-> error, user |-> ""]
Valid(user) == [valid |-> TRUE, error |-> "", user |-> user]
NoResult == [valid |-> FALSE, error |-> "", user |-> ""]

\* a call of one of the setters, or of clearToken
Store ==
    /\ \/ \E v \in Typed : localStorage' = SetToken(localStorage, v)
       \/ \E v \in Typed : localStorage' = SetOwner(localStorage, v)
       \/ \E v \in Typed : localStorage' = SetRepo(localStorage, v)
       \/ localStorage' = ClearToken(localStorage)
    /\ UNCHANGED <<userFetches, validation>>

\* validate() up to its await: without a token it returns at once, with one
\* it requests https://api.github.com/user
Validate ==
    /\ IF GetToken(localStorage) = ""
       THEN /\ validation' = Invalid("No token configured")
            /\ UNCHANGED userFetches
       ELSE /\ userFetches < MaxFetches
            /\ userFetches' = userFetches + 1
            /\ UNCHANGED validation
    /\ UNCHANGED localStorage

\* the request of validate() settles: the user's login, a status that is not
\* ok, or the message of what fetch threw
Validated ==
    /\ userFetches > 0
    /\ userFetches' = userFetches - 1
    /\ \E r \in {Valid("login"), Invalid("GitHub returned 401"),
                 Invalid("Failed to fetch")} : validation' = r
    /\ UNCHANGED localStorage

\* nothing is stored, validate() was not called
AuthInit ==
    /\ localStorage = [key \in Keys |-> <<>>]
    /\ userFetches = 0
    /\ validation = NoResult

\* the repository with experiment a, and pages whose list is list
PagesInit(list) ==
    /\ blobs = << [content |-> ExperimentsDoc(<<"a">>), encoding |-> "utf-8"],
                  [content |-> MetaDoc("a", 0), encoding |-> "utf-8"],
                  [content |-> IndexDoc(<<>>), encoding |-> "utf-8"] >>
    /\ trees = << [base |-> 0, tree |-> <<>>,
                   files |-> (ExperimentsPath :> 1) @@ (MetaPath("a") :> 2)
                             @@ (NewIndexPath("a") :> 3)] >>
    /\ commits = << [tree |-> 1, parents |-> <<>>] >>
    /\ ref = 1
    /\ ops = <<>>
    /\ cur = [p \in Pages |-> 0]
    /\ pc = [p \in Pages |-> "idle"]
    /\ progress = [p \in Pages |-> <<>>]
    /\ status = [p \in Pages |-> ""]
    /\ disabled = [p \in Pages |-> FALSE]
    /\ selectedFiles = [p \in Pages |-> 0]
    /\ experiments = [p \in Pages |-> list]
    /\ fields = [p \in Pages |-> ""]
    /\ attempt = [p \in Pages |-> NoAttempt]

\* every page has loaded the list; the browsing window shows it
Init == PagesInit(<<"a">>) /\ WorkerInit /\ ViewLoaded /\ AuthInit

\* the experiments the dropdown offers: those of experiments.json
Listed == IF Exists(ref, ExperimentsPath)
          THEN SeqToSet(DocAt(ref, ExperimentsPath).list) ELSE {}

\* ---------------------------------------------------- submit.js: photos
\* onPhotosSelected: one more image file
OnPhotosSelected(p) ==
    /\ selectedFiles[p] < MaxPhotos
    /\ selectedFiles' = [selectedFiles EXCEPT ![p] = @ + 1]
    /\ UNCHANGED <<remote, ops, cur, pc, progress, status, disabled, experiments,
                   fields>>

\* the remove-photo button: selectedFiles.splice(idx, 1)
RemovePhoto(p) ==
    /\ selectedFiles[p] > 0
    /\ selectedFiles' = [selectedFiles EXCEPT ![p] = @ - 1]
    /\ UNCHANGED <<remote, ops, cur, pc, progress, status, disabled, experiments,
                   fields>>

\* the operator types notes and measurements, or empties them
TypeFields(p) ==
    /\ \E typed \in {"", "typed"} :
        /\ typed # fields[p]
        /\ fields' = [fields EXCEPT ![p] = typed]
    /\ UNCHANGED <<remote, ops, cur, pc, progress, status, disabled, experiments,
                   selectedFiles>>

\* -------------------------------------------------- submit.js: onSubmit
\* what localStorage holds for the token and the owner, '' when unset
Tokens == {"", "token"}
Owners == {"", "owner"}

\* a settings check that looks at the token alone
IsConfiguredTokenOnly(token, owner) == token # ""

\* Auth.isConfigured(): !!(this.getToken() && this.getOwner())
IsConfigured(token, owner) == token # "" /\ owner # ""

\* the validation of onSubmit: the message of showError, "" when it passes
ValidationError(token, owner, x, d) ==
    IF ~IsConfigured(token, owner)
    THEN "Please configure your GitHub token in Settings first."
    ELSE IF x = "" THEN "Please select an experiment."
    ELSE IF d = NoDate THEN "Please enter a date."
    ELSE ""

\* the validation of onSubmit fails: showError, return
SubmitInvalid(p) ==
    /\ pc[p] = "idle" /\ ~disabled[p]
    /\ \E token \in Tokens, owner \in Owners, x \in Listed \cup {""},
          d \in Dates \cup {NoDate} :
        /\ ValidationError(token, owner, x, d) # ""
        /\ progress' = [progress EXCEPT ![p] = <<ValidationError(token, owner, x, d)>>]
        /\ attempt' = [attempt EXCEPT ![p] = Attempt(token, owner, x, d)]
    /\ UNCHANGED <<remote, ops, cur, pc, status, disabled, selectedFiles, fields,
                   experiments>>

\* onSubmit up to its first await: the form is disabled, the first photo is
\* being compressed or, without photos, the index is being read
SubmitStart(p) ==
    /\ pc[p] = "idle" /\ ~disabled[p]
    /\ Len(ops) < MaxOps
    /\ \E token \in Tokens, owner \in Owners, x \in Listed \cup {""},
          d \in Dates \cup {NoDate} :
        /\ ValidationError(token, owner, x, d) = ""
        /\ ops' = Append(ops, NewOp("submit", p, x, d, Len(ops) + 1))
        /\ attempt' = [attempt EXCEPT ![p] = Attempt(token, owner, x, d)]
    /\ cur' = [cur EXCEPT ![p] = Len(ops) + 1]
    /\ disabled' = [disabled EXCEPT ![p] = TRUE]
    /\ IF selectedFiles[p] > 0
       THEN /\ progress' = [progress EXCEPT ![p] = <<"Compressing photos...">>]
            /\ pc' = [pc EXCEPT ![p] = "compress"]
       ELSE /\ progress' = [progress EXCEPT ![p] = <<"Checking existing entries...">>]
            /\ pc' = [pc EXCEPT ![p] = "readIndex"]
    /\ UNCHANGED <<remote, status, selectedFiles, fields, experiments>>

\* a finally that leaves the button as it is
NoFinally(p) == UNCHANGED disabled

\* finally of onSubmit: submitBtn.disabled = false
Finally(p) == disabled' = [disabled EXCEPT ![p] = FALSE]

\* a catch that empties the form as well
ResetFormAnyway(p) ==
    /\ selectedFiles' = [selectedFiles EXCEPT ![p] = 0]
    /\ fields' = [fields EXCEPT ![p] = ""]

\* the catch of onSubmit does not touch the form
KeepForm(p) == UNCHANGED <<selectedFiles, fields>>

\* resetForm(): notes and measurements emptied, selectedFiles = []
ResetForm(p) ==
    /\ selectedFiles' = [selectedFiles EXCEPT ![p] = 0]
    /\ fields' = [fields EXCEPT ![p] = ""]

\* catch (err) and finally of onSubmit
SubmitFails(p) ==
    /\ progress' = [progress EXCEPT ![p] = AddProgress(@, "Error")]
    /\ KeepForm(p)
    /\ Finally(p)
    /\ pc' = [pc EXCEPT ![p] = "idle"]
    /\ cur' = [cur EXCEPT ![p] = 0]
    /\ UNCHANGED <<status, experiments>>

\* compressImage(selectedFiles[i]) settles
Compress(p) ==
    /\ pc[p] = "compress"
    /\ LET i == cur[p]
           n == Len(ops[i].files)
           path == ImagePath(ops[i].exp, ops[i].date, n)
       IN \E loaded \in BOOLEAN :
           IF loaded
           THEN /\ ops' = [ops EXCEPT ![i] = [@ EXCEPT
                       !.files = Append(@, File(path, ImageDoc(i, n + 1), "base64")),
                       !.imagePaths = Append(@, path)]]
                /\ IF n + 1 < selectedFiles[p]
                   THEN /\ progress' = [progress EXCEPT ![p] =
                                AddProgress(@, "Compressed photo")]
                        /\ pc' = pc
                   ELSE /\ progress' = [progress EXCEPT ![p] =
                                AddProgress(AddProgress(@, "Compressed photo"),
                                            "Checking existing entries...")]
                        /\ pc' = [pc EXCEPT ![p] = "readIndex"]
                /\ UNCHANGED <<cur, disabled, status, selectedFiles, fields, experiments>>
           ELSE /\ ops' = [ops EXCEPT ![i] = [@ EXCEPT !.outcome = "failed"]]
                /\ SubmitFails(p)
    /\ UNCHANGED remote

\* getFileContent(indexPath) settles; the file name, the entry and the index
\* are built and commitFiles is called
ReadIndex(p) ==
    /\ pc[p] = "readIndex"
    /\ LET i == cur[p]
           x == ops[i].exp
           date == ops[i].date
       IN \E res \in Responses(IndexPath(x)) :
           IF ReadThrows(res)
           THEN /\ ops' = [ops EXCEPT ![i] = [@ EXCEPT
                       !.read = res, !.outcome = "failed"]]
                /\ SubmitFails(p)
           ELSE LET entries == ReadList(res, IndexPath(x))
                    name == EntryFilename(entries, date)
                    entry == EntryDoc(date, ops[i].imagePaths, i)
                IN /\ ops' = [ops EXCEPT ![i] = [@ EXCEPT
                          !.read = res,
                          !.existingIndex = entries,
                          !.entryFilename = name,
                          !.files = @ \o
                             << File(EntryPath(x, name), entry, NoEncoding),
                                File(IndexPath(x),
                                     IndexDoc(PushAndSort(entries, name)),
                                     NoEncoding) >>]]
                   /\ progress' = [progress EXCEPT ![p] =
                          AddProgress(@, "Getting current branch...")]
                   /\ pc' = [pc EXCEPT ![p] = "getRef"]
                   /\ UNCHANGED <<cur, disabled, status, selectedFiles, fields, experiments>>
    /\ UNCHANGED remote

\* ------------------------------------- site.js: createNewExperiment
\* catch (err) of createNewExperiment
CreateFails(p) ==
    /\ status' = [status EXCEPT ![p] = "Error"]
    /\ pc' = [pc EXCEPT ![p] = "idle"]
    /\ cur' = [cur EXCEPT ![p] = 0]
    /\ UNCHANGED <<progress, disabled, selectedFiles, fields, experiments>>

\* createNewExperiment up to its first await, the id typed one of ids:
\* experiments.json is being read
CreateStartWith(p, ids) ==
    /\ pc[p] = "idle"
    /\ Len(ops) < MaxOps
    /\ \E id \in ids :
        ops' = Append(ops, NewOp("create", p, id, NoDate, Len(ops) + 1))
    /\ cur' = [cur EXCEPT ![p] = Len(ops) + 1]
    /\ status' = [status EXCEPT ![p] = "Creating experiment..."]
    /\ pc' = [pc EXCEPT ![p] = "readExperiments"]
    /\ UNCHANGED <<remote, progress, disabled, selectedFiles, fields, experiments>>

CreateStart(p) == CreateStartWith(p, ExperimentIds)

\* getFileContent('docs/data/experiments.json') settles; a duplicate id ends
\* the run, otherwise the three files are built and commitFiles is called
ReadExperiments(p) ==
    /\ pc[p] = "readExperiments"
    /\ LET i == cur[p]
           id == ops[i].exp
       IN \E res \in Responses(ExperimentsPath) :
           IF ReadThrows(res)
           THEN /\ ops' = [ops EXCEPT ![i] = [@ EXCEPT
                       !.read = res, !.outcome = "failed"]]
                /\ CreateFails(p)
           ELSE LET list == ReadList(res, ExperimentsPath) IN
                IF id \in SeqToSet(list)
                THEN /\ ops' = [ops EXCEPT ![i] = [@ EXCEPT
                            !.read = res, !.existingIndex = list,
                            !.outcome = "duplicate"]]
                     /\ status' = [status EXCEPT ![p] =
                            "An experiment with this ID already exists."]
                     /\ pc' = [pc EXCEPT ![p] = "idle"]
                     /\ cur' = [cur EXCEPT ![p] = 0]
                     /\ UNCHANGED <<progress, disabled, selectedFiles, fields, experiments>>
                ELSE /\ ops' = [ops EXCEPT ![i] = [@ EXCEPT
                            !.read = res, !.existingIndex = list,
                            !.files =
                              << File(ExperimentsPath,
                                      ExperimentsDoc(Append(list, id)), NoEncoding),
                                 File(MetaPath(id), MetaDoc(id, i), NoEncoding),
                                 File(NewIndexPath(id), IndexDoc(<<>>), NoEncoding) >>]]
                     /\ pc' = [pc EXCEPT ![p] = "getRef"]
                     /\ UNCHANGED <<cur, status, progress, disabled,
                                    selectedFiles, fields, experiments>>
    /\ UNCHANGED remote

\* ------------------------------------------- github-api.js: commitFiles
\* progress(step, message): onSubmit's callback adds a step, createNewExperiment
\* passes none
OnProgress(p, messages) ==
    progress' = [progress EXCEPT ![p] =
        IF ops[cur[p]].kind = "submit" THEN @ \o messages ELSE @]

\* commitFiles throws: the caller's catch
CommitFails(p) ==
    IF ops[cur[p]].kind = "submit" THEN SubmitFails(p) ELSE CreateFails(p)

\* the run of page p with one more call logged, failed when the call failed
Called(p, name, result) ==
    [ops[cur[p]] EXCEPT !.calls = Append(@, Call(name, result)),
                        !.outcome = IF result = "ok" THEN @ ELSE "failed"]

\* a loop over files that stops one file short
LastBlobButOne(op) == Len(op.treeEntries) + 1 >= Len(op.files) - 1

\* the loop over files has created the blob of every file but this one
LastBlob(op) == Len(op.treeEntries) + 1 = Len(op.files)

\* parents: the head as it is when the commit is created, not as resolved
ParentsAtCommit(op) == <<ref>>

\* parents: [parentSha] of the commit commitFiles creates
CommitParents(op) == <<op.headSha>>
\* base_tree of the tree commitFiles creates
BaseTree(op) == op.baseTreeSha
\* the sha commitFiles hands to updateRef
RefTarget(op) == op.newCommit
\* the encoding as the file declares it, without a default
EncodingDeclared(file) == file.encoding
\* file.encoding || 'utf-8'
Encoding(file) == IF file.encoding = NoEncoding THEN "utf-8" ELSE file.encoding

\* getRef settles
GetRef(p) ==
    /\ pc[p] = "getRef"
    /\ \E ok \in BOOLEAN :
        IF ok
        THEN /\ ops' = [ops EXCEPT ![cur[p]] =
                    [Called(p, "getRef", "ok") EXCEPT !.headSha = ref]]
             /\ pc' = [pc EXCEPT ![p] = "getCommit"]
             /\ UNCHANGED <<cur, progress, status, disabled, selectedFiles, fields,
                            experiments>>
        ELSE /\ ops' = [ops EXCEPT ![cur[p]] = Called(p, "getRef", "failed")]
             /\ CommitFails(p)
    /\ UNCHANGED remote

\* getCommit(headSha) settles
GetCommit(p) ==
    /\ pc[p] = "getCommit"
    /\ \E ok \in BOOLEAN :
        IF ok
        THEN /\ ops' = [ops EXCEPT ![cur[p]] =
                    [Called(p, "getCommit", "ok") EXCEPT
                        !.baseTreeSha = commits[ops[cur[p]].headSha].tree]]
             /\ OnProgress(p, <<"Creating file(s)...">>
                    \o IF Len(ops[cur[p]].files) = 0
                       THEN <<"Building commit tree...">> ELSE <<>>)
             /\ pc' = [pc EXCEPT ![p] =
                    IF Len(ops[cur[p]].files) = 0 THEN "createTree"
                    ELSE "createBlob"]
             /\ UNCHANGED <<cur, status, disabled, selectedFiles, fields, experiments>>
        ELSE /\ ops' = [ops EXCEPT ![cur[p]] = Called(p, "getCommit", "failed")]
             /\ CommitFails(p)
    /\ UNCHANGED remote

\* createBlob of the next file settles
CreateBlob(p) ==
    /\ pc[p] = "createBlob"
    /\ LET op == ops[cur[p]]
           file == op.files[Len(op.treeEntries) + 1]
           sha == Len(blobs) + 1
       IN \E ok \in BOOLEAN :
           IF ok
           THEN /\ blobs' = Append(blobs, [content |-> file.content,
                                           encoding |-> Encoding(file)])
                /\ ops' = [ops EXCEPT ![cur[p]] =
                       [Called(p, "createBlob", "ok") EXCEPT
                           !.treeEntries = Append(@, [path |-> file.path,
                                                      sha |-> sha])]]
                /\ IF LastBlob(op)
                   THEN /\ OnProgress(p, <<"Building commit tree...">>)
                        /\ pc' = [pc EXCEPT ![p] = "createTree"]
                   ELSE UNCHANGED <<progress, pc>>
                /\ UNCHANGED <<cur, status, disabled, selectedFiles, fields, experiments>>
           ELSE /\ ops' = [ops EXCEPT ![cur[p]] = Called(p, "createBlob", "failed")]
                /\ CommitFails(p)
                /\ UNCHANGED blobs
    /\ UNCHANGED <<ref, commits, trees>>

\* createTree(baseTreeSha, treeEntries) settles
CreateTree(p) ==
    /\ pc[p] = "createTree"
    /\ LET op == ops[cur[p]] IN
       \E ok \in BOOLEAN :
           IF ok
           THEN /\ trees' = Append(trees, TreeWith(BaseTree(op), op.treeEntries))
                /\ ops' = [ops EXCEPT ![cur[p]] =
                       [Called(p, "createTree", "ok") EXCEPT
                           !.newTree = Len(trees) + 1]]
                /\ OnProgress(p, <<"Creating commit...">>)
                /\ pc' = [pc EXCEPT ![p] = "createCommit"]
                /\ UNCHANGED <<cur, status, disabled, selectedFiles, fields, experiments>>
           ELSE /\ ops' = [ops EXCEPT ![cur[p]] = Called(p, "createTree", "failed")]
                /\ CommitFails(p)
                /\ UNCHANGED trees
    /\ UNCHANGED <<ref, commits, blobs>>

\* createCommitObj(message, newTree.sha, headSha) settles
CreateCommit(p) ==
    /\ pc[p] = "createCommit"
    /\ LET op == ops[cur[p]] IN
       \E ok \in BOOLEAN :
           IF ok
           THEN /\ commits' = Append(commits, [tree |-> op.newTree,
                                               parents |-> CommitParents(op)])
                /\ ops' = [ops EXCEPT ![cur[p]] =
                       [Called(p, "createCommit", "ok") EXCEPT
                           !.newCommit = Len(commits) + 1]]
                /\ OnProgress(p, <<"Updating branch...">>)
                /\ pc' = [pc EXCEPT ![p] = "updateRef"]
                /\ UNCHANGED <<cur, status, disabled, selectedFiles, fields, experiments>>
           ELSE /\ ops' = [ops EXCEPT ![cur[p]] = Called(p, "createCommit", "failed")]
                /\ CommitFails(p)
                /\ UNCHANGED commits
    /\ UNCHANGED <<ref, trees, blobs>>

\* updateRef('main', newCommit.sha) settles; on success commitFiles returns
\* and its caller finishes; w is the window whose script started the run
UpdateRefIn(p, w) ==
    /\ pc[p] = "updateRef"
    /\ LET op == ops[cur[p]] IN
       \E reached \in BOOLEAN :
           IF reached /\ RefUpdateAccepted(RefTarget(op))
           THEN /\ ref' = RefTarget(op)
                /\ ops' = [ops EXCEPT ![cur[p]] =
                       [Called(p, "updateRef", "ok") EXCEPT
                           !.refBefore = ref, !.refAfter = RefTarget(op),
                           !.outcome = "ok"]]
                /\ pc' = [pc EXCEPT ![p] = "idle"]
                /\ cur' = [cur EXCEPT ![p] = 0]
                /\ IF op.kind = "submit"
                   THEN \* progress('done', ...); 'Entry submitted...'; resetForm()
                        /\ progress' = [progress EXCEPT ![p] =
                               @ \o <<"Committed successfully!",
                                      "Entry submitted successfully!">>]
                        /\ ResetForm(p)
                        /\ Finally(p)
                        /\ UNCHANGED <<status, experiments>>
                   ELSE \* 'Experiment created!'; experiments.push(newExp)
                        /\ status' = [status EXCEPT ![p] = "Experiment created!"]
                        /\ experiments' = [experiments EXCEPT ![w] =
                               Append(@, op.exp)]
                        /\ UNCHANGED <<progress, selectedFiles, fields, disabled>>
           ELSE /\ ops' = [ops EXCEPT ![cur[p]] = Called(p, "updateRef",
                            IF reached THEN "rejected" ELSE "failed")]
                /\ CommitFails(p)
                /\ UNCHANGED ref
    /\ UNCHANGED <<commits, trees, blobs>>

\* every page is a window of its own
UpdateRef(p) == UpdateRefIn(p, p)

\* ------------------------------------------------- site.js: loadEntries
\* GitHub Pages serves the folder /docs of the branch: the file of the
\* repository a URL of the site, relative to BASE = './', is fetched from
Served(dir) ==
    CASE dir = "data" -> "docs/data"
      [] dir = "data/experiments" -> "docs/data/experiments"
      [] dir = "images" -> "docs/images"

\* BASE + `data/experiments/${exp.id}/entries/index.json`
LoadedIndexPath(x) ==
    Path(Served("data/experiments"), x, "entries/index.json", 0, <<>>)
\* BASE + `data/experiments/${exp.id}/entries/${fname}`
LoadedEntryPath(x, f) ==
    Path(Served("data/experiments"), x, "entries/", f.date, f.digits)

\* loadEntries(exp) with the site deployed from commit c: the file names of
\* the index that is fetched ({} when the fetch is not ok: 'No entries
\* found'), and of those the entries whose document is fetched ok
LoadedFilenames(c, x) ==
    IF Exists(c, LoadedIndexPath(x))
    THEN SeqToSet(DocAt(c, LoadedIndexPath(x)).list) ELSE {}
LoadEntries(c, x) ==
    {f \in LoadedFilenames(c, x) : Exists(c, LoadedEntryPath(x, f))}

\* ------------------------------------------------------------ behaviours
\* a step of a submission or of a creation; the operator picks photos
\* between submissions
Step(p) ==
    \/ pc[p] = "idle" /\ OnPhotosSelected(p) /\ UNCHANGED restVars
    \/ SubmitStart(p) /\ UNCHANGED <<workerVars, viewVars, authVars>>
    \/ Compress(p) /\ UNCHANGED restVars
    \/ ReadIndex(p) /\ UNCHANGED restVars
    \/ CreateStart(p) /\ UNCHANGED restVars
    \/ ReadExperiments(p) /\ UNCHANGED restVars
    \/ GetRef(p) /\ UNCHANGED restVars
    \/ GetCommit(p) /\ UNCHANGED restVars
    \/ CreateBlob(p) /\ UNCHANGED restVars
    \/ CreateTree(p) /\ UNCHANGED restVars
    \/ CreateCommit(p) /\ UNCHANGED restVars
    \/ UpdateRef(p) /\ UNCHANGED restVars

\* the pages run at once, their steps in any order
Next == \E p \in Pages : Step(p)

Spec == Init /\ [][Next]_vars

\* one submission or creation at a time
Alone(p) == \A q \in Pages \ {p} : pc[q] = "idle"

StepAlone(p) ==
    \/ Alone(p) /\ SubmitStart(p) /\ UNCHANGED <<workerVars, viewVars, authVars>>
    \/ Alone(p) /\ Compress(p) /\ UNCHANGED restVars
    \/ Alone(p) /\ ReadIndex(p) /\ UNCHANGED restVars
    \/ Alone(p) /\ CreateStart(p) /\ UNCHANGED restVars
    \/ Alone(p) /\ ReadExperiments(p) /\ UNCHANGED restVars
    \/ Alone(p) /\ GetRef(p) /\ UNCHANGED restVars
    \/ Alone(p) /\ GetCommit(p) /\ UNCHANGED restVars
    \/ Alone(p) /\ CreateBlob(p) /\ UNCHANGED restVars
    \/ Alone(p) /\ CreateTree(p) /\ UNCHANGED restVars
    \/ Alone(p) /\ CreateCommit(p) /\ UNCHANGED restVars
    \/ Alone(p) /\ UpdateRef(p) /\ UNCHANGED restVars
    \/ Alone(p) /\ pc[p] = "idle" /\ OnPhotosSelected(p) /\ UNCHANGED restVars

NextAlone == \E p \in Pages : StepAlone(p)

SpecAlone == Init /\ [][NextAlone]_vars

\* one page alone: its submissions, and every handler of its form at any time
NextForm ==
    \/ Len(ops) < MaxFormOps /\ SubmitStart(1) /\ UNCHANGED <<workerVars, viewVars, authVars>>
    \/ Compress(1) /\ UNCHANGED restVars
    \/ ReadIndex(1) /\ UNCHANGED restVars
    \/ GetRef(1) /\ UNCHANGED restVars
    \/ GetCommit(1) /\ UNCHANGED restVars
    \/ CreateBlob(1) /\ UNCHANGED restVars
    \/ CreateTree(1) /\ UNCHANGED restVars
    \/ CreateCommit(1) /\ UNCHANGED restVars
    \/ UpdateRef(1) /\ UNCHANGED restVars
    \/ OnPhotosSelected(1) /\ UNCHANGED restVars
    \/ RemovePhoto(1) /\ UNCHANGED restVars
    \/ SubmitInvalid(1) /\ UNCHANGED <<workerVars, viewVars, authVars>>
    \/ TypeFields(1) /\ UNCHANGED restVars

SpecForm == Init /\ [][NextForm]_vars

\* the pages create experiments, with one more id to type
NewIds == ExperimentIds \cup {"c"}

StepCreate(p) ==
    \/ CreateStartWith(p, NewIds) /\ UNCHANGED restVars
    \/ ReadExperiments(p) /\ UNCHANGED restVars
    \/ GetRef(p) /\ UNCHANGED restVars
    \/ GetCommit(p) /\ UNCHANGED restVars
    \/ CreateBlob(p) /\ UNCHANGED restVars
    \/ CreateTree(p) /\ UNCHANGED restVars
    \/ CreateCommit(p) /\ UNCHANGED restVars
    \/ UpdateRef(p) /\ UNCHANGED restVars

NextCreate == \E p \in Pages : StepCreate(p)

SpecCreate == Init /\ [][NextCreate]_vars

\* the dialog of one window, submitted again before the run of the first
\* submission has finished: form.onsubmit starts a run at every submit event,
\* and both runs push to the one list of the window
StepDialog(p) ==
    \/ CreateStartWith(p, NewIds) /\ UNCHANGED restVars
    \/ ReadExperiments(p) /\ UNCHANGED restVars
    \/ GetRef(p) /\ UNCHANGED restVars
    \/ GetCommit(p) /\ UNCHANGED restVars
    \/ CreateBlob(p) /\ UNCHANGED restVars
    \/ CreateTree(p) /\ UNCHANGED restVars
    \/ CreateCommit(p) /\ UNCHANGED restVars
    \/ UpdateRefIn(p, Window) /\ UNCHANGED restVars

NextDialog == \E p \in Pages : StepDialog(p)

SpecDialog == Init /\ [][NextDialog]_vars

\* the browsing window from the start of its script
viewRest == <<ref, commits, trees, blobs, ops, cur, pc, progress, status,
              disabled, selectedFiles, fields, attempt, workerVars, authVars>>

InitView == PagesInit(<<>>) /\ WorkerInit /\ ViewStart /\ AuthInit

NextView ==
    \/ LoadExperiments /\ UNCHANGED viewRest
    \/ Navigate /\ UNCHANGED viewRest
    \/ OnSearch /\ UNCHANGED viewRest
    \/ IndexFetched /\ UNCHANGED viewRest
    \/ EntriesFetched /\ UNCHANGED viewRest
    \/ ScriptLoaded /\ UNCHANGED viewRest

SpecView == InitView /\ [][NextView]_vars

\* the names caches of the origin may have when the worker is installed
CacheNames == {OldCacheName, CACHE_NAME, "other"}

\* the worker installed over any set of caches
InitCaches ==
    PagesInit(<<"a">>) /\ WorkerInitWith(SUBSET CacheNames) /\ ViewLoaded
    /\ AuthInit

\* the token store and its callers
authRest == <<pageVars, workerVars, viewVars>>

NextAuth ==
    \/ Store /\ UNCHANGED authRest
    \/ Validate /\ UNCHANGED authRest
    \/ Validated /\ UNCHANGED authRest

SpecAuth == Init /\ [][NextAuth]_vars

\* the service worker, the network and a page's requests
NextWorker ==
    \/ Install /\ UNCHANGED <<pageVars, viewVars, authVars>>
    \/ Register /\ UNCHANGED <<pageVars, viewVars, authVars>>
    \/ Activate /\ UNCHANGED <<pageVars, viewVars, authVars>>
    \/ Network /\ UNCHANGED <<pageVars, viewVars, authVars>>
    \/ Deploy /\ UNCHANGED <<pageVars, viewVars, authVars>>
    \/ PageRequest /\ UNCHANGED <<pageVars, viewVars, authVars>>
    \/ Direct /\ UNCHANGED <<pageVars, viewVars, authVars>>
    \/ CacheFirstMatch /\ UNCHANGED <<pageVars, viewVars, authVars>>
    \/ CacheFirstFetch /\ UNCHANGED <<pageVars, viewVars, authVars>>
    \/ NetworkFirstFetch /\ UNCHANGED <<pageVars, viewVars, authVars>>
    \/ NetworkFirstCatch /\ UNCHANGED <<pageVars, viewVars, authVars>>
    \/ PutDone /\ UNCHANGED <<pageVars, viewVars, authVars>>

SpecWorker == Init /\ [][NextWorker]_vars

SpecCaches == InitCaches /\ [][NextWorker]_vars

\* ====================================================== the properties
Runs == 1..Len(ops)
Submits == {i \in Runs : ops[i].kind = "submit"}
Succeeded(i) == ops[i].outcome = "ok"
\* the blobs run i created, the paths it writes
BlobsOf(i) == {ops[i].treeEntries[k].sha : k \in 1..Len(ops[i].treeEntries)}
PathsOf(i) == {ops[i].files[k].path : k \in 1..Len(ops[i].files)}
\* the last remote call of run i has this name, and ended so
LastCall(i, name) ==
    /\ ops[i].calls # <<>>
    /\ ops[i].calls[Len(ops[i].calls)][1] = name
LastResult(i) == ops[i].calls[Len(ops[i].calls)][2]
\* the ref has pointed at each of these, and at no other commit
Heads == Ancestors(ref)

\* C1: commitFiles is all-or-nothing on the branch.  Every commit the ref has
\* pointed at, but the repository's first, is the commit of a run whose ref
\* update succeeded and holds every file of that run's batch, each with the
\* blob the run created for it; and no blob of a run that did not succeed (in
\* flight, or failed at any step) is in the tree of any commit the ref has
\* pointed at, so a failure leaves the ref where it was.
C1_AllOrNothing ==
    /\ \A c \in Heads : commits[c].parents # <<>> =>
          \E i \in Runs :
             /\ Succeeded(i) /\ ops[i].newCommit = c
             /\ \A k \in 1..Len(ops[i].files) :
                   LET f == ops[i].files[k] IN
                   /\ Exists(c, f.path)
                   /\ FilesAt(c)[f.path] = ops[i].treeEntries[k].sha
                   /\ DocAt(c, f.path) = f.content
    /\ \A i \in Runs : ~Succeeded(i) =>
          \A c \in Heads : \A path \in DOMAIN FilesAt(c) :
             FilesAt(c)[path] \notin BlobsOf(i)

\* a run landed, and another failed at its ref update with all its blobs, its
\* tree and its commit created
C1_Witness ==
    \E i, j \in Runs :
       /\ Succeeded(i) /\ ref = ops[i].newCommit
       /\ ops[j].outcome = "failed" /\ LastCall(j, "updateRef")
       /\ BlobsOf(j) # {} /\ ops[j].newCommit # 0

\* the entry file names the index of experiment x under dir lists at the head,
\* and those of the entry documents in that directory
ListedEntries(dir, x) ==
    LET index == Path(dir, x, "entries/index.json", 0, <<>>) IN
    IF Exists(ref, index) THEN SeqToSet(DocAt(ref, index).list) ELSE {}
EntryDocuments(dir, x) ==
    {FileName(path.date, path.digits) :
        path \in {q \in DOMAIN FilesAt(ref) :
                    q.dir = dir /\ q.exp = x /\ q.kind = "entries/"}}

\* C2: index integrity.  With creations and submissions run one at a time, at
\* the head the file names an experiment's entries/index.json lists are
\* exactly the entry documents of that entries directory.
C2_IndexIntegrity ==
    \A x \in ExperimentIds, dir \in {"data/experiments", "docs/data/experiments"} :
       ListedEntries(dir, x) = EntryDocuments(dir, x)

\* the index read of run i was answered with the index file, or with 404
ReadAnswered(i) == ops[i].read.status \in {200, 404}

\* C3: two submissions for one experiment whose steps interleave and that both
\* end with a successful ref update are both kept: at the head the index lists
\* both file names, the names differ, and each entry document holds what its
\* own submission wrote.  (Stated for submissions whose index reads were
\* answered with the index file or with 404: the claim fails even for those.)
C3_BothEntriesKept ==
    \A i, j \in Submits :
       (/\ i # j /\ ops[i].exp = ops[j].exp
        /\ ReadAnswered(i) /\ ReadAnswered(j)
        /\ Succeeded(i) /\ Succeeded(j)) =>
          /\ ops[i].entryFilename # ops[j].entryFilename
          /\ \A k \in {i, j} :
                LET x == ops[k].exp
                    name == ops[k].entryFilename
                IN /\ name \in ListedEntries("data/experiments", x)
                   /\ Exists(ref, EntryPath(x, name))
                   /\ DocAt(ref, EntryPath(x, name)).sub = k

\* both runs resolved the same head in step 1 and the ref update of each has
\* settled
Raced(i, j) ==
    /\ i # j
    /\ ops[i].headSha = ops[j].headSha
    /\ LastCall(i, "updateRef") /\ LastCall(j, "updateRef")

\* the ref moved only to commits whose parent was its value
FastForwardOnly ==
    \A i \in Runs : Succeeded(i) =>
       commits[ops[i].refAfter].parents = <<ops[i].refBefore>>

C5_CommitShape ==
    \A i \in Runs : Succeeded(i) =>
       LET c == ops[i].newCommit IN
       /\ commits[c].parents = <<ops[i].headSha>>
       /\ commits[c].tree = ops[i].newTree
       /\ trees[ops[i].newTree].base = commits[ops[i].headSha].tree
       /\ ops[i].refAfter = c

\* a run landed on a head that an earlier run had itself committed
C5_Witness ==
    \E i \in Runs :
       /\ Succeeded(i) /\ ref = ops[i].newCommit
       /\ commits[ops[i].headSha].parents # <<>>

\* the calls of one whole commitFiles run, in order
Expected(op) ==
    <<"getRef", "getCommit">> \o [k \in 1..Len(op.files) |-> "createBlob"]
    \o <<"createTree", "createCommit", "updateRef">>

\* C6: the remote calls of a commitFiles run are issued in the order get-ref,
\* get-commit, one create-blob per file in input order, create-tree,
\* create-commit, update-ref, each once and only after every earlier one
\* succeeded; after a failing call none is issued and the run has ended in
\* failure.
C6_StepOrder ==
    \A i \in Runs :
       LET op == ops[i]
           n == Len(op.calls)
       IN /\ n <= Len(Expected(op))
          /\ \A k \in 1..n : op.calls[k][1] = Expected(op)[k]
          /\ \A k \in 1..(n - 1) : op.calls[k][2] = "ok"
          /\ (n > 0 /\ op.calls[n][2] # "ok") =>
                (op.outcome = "failed" /\ cur[op.page] # i)
          /\ \A k \in 1..Len(op.treeEntries) :
                /\ op.calls[k + 2] = Call("createBlob", "ok")
                /\ op.treeEntries[k].path = op.files[k].path
                /\ blobs[op.treeEntries[k].sha].content = op.files[k].content
          /\ Succeeded(i) => n = Len(Expected(op))

\* a run with three files failed at its second blob
C6_Witness ==
    \E i \in Runs :
       /\ Len(ops[i].files) = 3
       /\ ops[i].calls = << Call("getRef", "ok"), Call("getCommit", "ok"),
                            Call("createBlob", "ok"), Call("createBlob", "failed") >>

\* C7: after a successful commitFiles, every path that is not a path of the
\* input files is at the new head exactly as it was at the head immediately
\* before the ref update: there with the same blob, or not there.
C7_Frame ==
    \A i \in Runs : Succeeded(i) =>
       \A path \in (DOMAIN FilesAt(ops[i].refAfter)
                    \cup DOMAIN FilesAt(ops[i].refBefore)) \ PathsOf(i) :
          /\ Exists(ops[i].refAfter, path) /\ Exists(ops[i].refBefore, path)
          /\ FilesAt(ops[i].refAfter)[path] = FilesAt(ops[i].refBefore)[path]

\* a submission landed although another commit had changed the index between
\* its read of the index and its step 1
C7_Witness ==
    \E i \in Submits :
       /\ Succeeded(i) /\ ops[i].read.status \in {200, 404}
       /\ Exists(ops[i].headSha, IndexPath(ops[i].exp))
       /\ DocAt(ops[i].headSha, IndexPath(ops[i].exp)).list # ops[i].existingIndex
       /\ DOMAIN FilesAt(ops[i].refBefore) \ PathsOf(i) # {}

\* the file names of the index run i read that start with its date, and the
\* number each counts for: its numeric suffix, 1 without one
SameDay(i) == {f \in SeqToSet(ops[i].existingIndex) : f.date = ops[i].date}
SuffixOf(f) == IF f.digits = <<>> THEN 1 ELSE ParseInt(f.digits)
Largest(S) == CHOOSE n \in S : \A m \in S : m <= n
\* the run has chosen its entry file name
Named(i) == ops[i].entryFilename.date # NoDate

\* C8: the entry file name of a submission with date D is D.json when no file
\* name of the index that was read starts with D, otherwise D_NN.json with NN
\* the largest suffix among those (D.json counting as 1) plus 1, padded to two
\* digits; the name is not in the index that was read; and a submission that
\* lands, submissions running one at a time, writes its entry document at a
\* path where the head had no entry document.
C8_NextFreeName ==
    \A i \in Submits : Named(i) =>
       LET name == ops[i].entryFilename IN
       /\ name = IF SameDay(i) = {} THEN FileName(ops[i].date, <<>>)
                 ELSE FileName(ops[i].date,
                        PadStart(DigitsOf(Largest({SuffixOf(f) : f \in SameDay(i)}) + 1), 2))
       /\ name \notin SeqToSet(ops[i].existingIndex)
       /\ Succeeded(i) => ~Exists(ops[i].refBefore, EntryPath(ops[i].exp, name))

\* the last submission started on page p, 0 when none
LastSubmit(p) ==
    LET mine == {i \in Submits : ops[i].page = p} IN
    IF mine = {} THEN 0 ELSE Largest(mine)
\* how often message is among the steps shown
Shown(steps, message) == Cardinality({k \in 1..Len(steps) : steps[k] = message})
\* a step of submission i failed: a photo could not be compressed, the index
\* read was answered with a failure other than 404, or a remote call of
\* commitFiles failed
CompressFailed(i) ==
    ops[i].outcome = "failed" /\ ops[i].read = NoResponse /\ ops[i].calls = <<>>
IndexReadFailed(i) == ops[i].read.status \notin {0, 200, 404}
CallFailed(i) == \E k \in 1..Len(ops[i].calls) : ops[i].calls[k][2] # "ok"
StepFailed(i) == CompressFailed(i) \/ IndexReadFailed(i) \/ CallFailed(i)

\* C9: when a step of a submission fails (image compression, index read, a
\* call of commitFiles) the page shows one "Error" step and neither success
\* message, and the submission has ended without another attempt; and the
\* success messages are shown only after the ref update succeeded.
C9_FailureReported ==
    \A p \in Pages : LastSubmit(p) # 0 =>
       LET i == LastSubmit(p)
           success == Shown(progress[p], "Committed successfully!")
                      + Shown(progress[p], "Entry submitted successfully!")
       IN /\ StepFailed(i) =>
                /\ Shown(progress[p], "Error") = 1
                /\ success = 0
                /\ cur[p] # i /\ ops[i].outcome = "failed"
          /\ success > 0 => (LastCall(i, "updateRef") /\ LastResult(i) = "ok")

\* ---------------------------------------------------------------- C10
\* the last request was a same-origin GET, made and handled without network
OfflineSameOriginGet ==
    /\ answer.from # "none"
    /\ answer.offline
    /\ answer.req.method = "GET"
    /\ answer.req.url.host = Self

\* the cache has every app-shell URL once install has completed
ShellStored ==
    swState \in {"installed", "activated"} => \A u \in APP_SHELL : cache[u] # 0

\* from the cache whenever something was stored, 503 only when nothing was,
\* never a network error
ServedOffline ==
    /\ answer.from \in {"cache", "offline"}
    /\ answer.had # 0 => answer.from = "cache" /\ answer.version = answer.had
    /\ answer.from = "offline" => answer.status = 503 /\ answer.had = 0

\* C10 as stated: once the install step has completed, a same-origin GET
\* request made while the network is unavailable is answered from the cache
\* whenever a response for it was stored (install stores every app-shell
\* URL), with 503 only when nothing is cached for it, and never fails with a
\* network error.
C10_OfflineOnceInstalled ==
    /\ ShellStored
    /\ OfflineSameOriginGet /\ answer.installed => ServedOffline

\* C10, amended: the same for the requests made once the installed worker has
\* been activated, which is when it starts to get the pages' fetch events.
C10_OfflineOnceActivated ==
    /\ ShellStored
    /\ OfflineSameOriginGet /\ answer.controlled => ServedOffline

\* an app-shell page was asked for without network and came from the cache
C10_Witness ==
    /\ OfflineSameOriginGet
    /\ answer.controlled
    /\ answer.req.url = IndexHtml
    /\ answer.from = "cache"

\* ---------------------------------------------------------------- C11
\* a request that is not a GET, or that goes to api.github.com
Skipped(r) == r.method # "GET" \/ r.url.host = GitHub

\* C11: the service worker never intercepts a request that is not a GET, nor
\* a request to api.github.com: the request is handled by neither cacheFirst
\* nor networkFirst, its answer comes from the network (or is the network's
\* error), never from the cache and never the worker's 503, and nothing of
\* api.github.com is stored in the cache or being put into it.
C11_NeverIntercepted ==
    /\ (request.stage # "idle" /\ Skipped(request.req)) => request.stage = "none"
    /\ (answer.from # "none" /\ Skipped(answer.req)) =>
          answer.from \in {"network", "error"}
    /\ \A u \in Urls : u.host = GitHub =>
          cache[u] = 0 /\ \A put \in puts : put[1] # u

\* an activated worker was passed by: a ref update reached the remote, and a
\* read of the API went to the network although the network was down
C11_Witness ==
    /\ answer.from # "none"
    /\ answer.controlled
    /\ answer.req = Req("GET", GitRefs)
    /\ answer.from = "error"

\* ---------------------------------------------------------------- C12
\* the experiments list at commit c, empty when the document is not there
ListAt(c) ==
    IF Exists(c, ExperimentsPath) THEN DocAt(c, ExperimentsPath).list ELSE <<>>

\* C12: every step that changes docs/data/experiments.json at the head leaves
\* the list that was at the head immediately before, with one experiment
\* added at its end.  (Stated for the runs whose read of the list was
\* answered with the document or with 404: the claim fails even for those.)
C12_OnlyAppended ==
    \A i \in Runs : (Succeeded(i) /\ ReadAnswered(i)) =>
       LET old == ListAt(ops[i].refBefore)
           new == ListAt(ops[i].refAfter)
       IN new # old =>
             /\ Len(new) = Len(old) + 1
             /\ SubSeq(new, 1, Len(old)) = old
             /\ new[Len(new)] \notin SeqToSet(old)

\* ---------------------------------------------------------------- C13
\* the paths a submission for experiment x may write: entry documents and the
\* index in x's entries directory, images under images/x/
Own(path, x) ==
    /\ path.exp = x
    /\ \/ path.dir = "data/experiments" /\ path.kind \in {"entries/", "entries/index.json"}
       \/ path.dir = "images" /\ path.kind = ".jpg"

\* C13: a submission for experiment X writes the new entry document and the
\* index, both in X's entries directory, and its images under images/X/,
\* nothing else; and the submission that lands leaves every path of another
\* experiment, and the experiments list document, at the head as the head had
\* it immediately before.
C13_PathContainment ==
    \A i \in Submits :
       LET x == ops[i].exp IN
       /\ \A path \in PathsOf(i) : Own(path, x)
       /\ Named(i) =>
             PathsOf(i) = {EntryPath(x, ops[i].entryFilename), IndexPath(x)}
                          \cup SeqToSet(ops[i].imagePaths)
       /\ Succeeded(i) =>
             \A path \in DOMAIN FilesAt(ops[i].refAfter)
                          \cup DOMAIN FilesAt(ops[i].refBefore) :
                path.exp # x =>
                   /\ Exists(ops[i].refAfter, path) /\ Exists(ops[i].refBefore, path)
                   /\ FilesAt(ops[i].refAfter)[path] = FilesAt(ops[i].refBefore)[path]

\* a submission with a photo landed on a head that held the index of another
\* experiment
C13_Witness ==
    \E i \in Submits :
       /\ Succeeded(i) /\ ops[i].imagePaths # <<>>
       /\ \E path \in DOMAIN FilesAt(ops[i].refBefore) :
              path.kind = "entries/index.json" /\ path.exp # ops[i].exp

\* ---------------------------------------------------------------- C14
\* the runs and positions whose tree entry points at blob b
OwnersOf(b) ==
    {ik \in {<<i, k>> : i \in Runs, k \in 1..(MaxPhotos + 3)} :
        /\ ik[2] <= Len(ops[ik[1]].treeEntries)
        /\ ops[ik[1]].treeEntries[ik[2]].sha = b}

\* C14: commitFiles creates one blob per input file, with the encoding the
\* file declares and 'utf-8' when it declares none (a photo declares
\* 'base64', the documents declare none); every blob created belongs to one
\* file of one run; and the tree commitFiles creates lists one entry per
\* input file, in input order, at the file's path and pointing at the file's
\* blob.
C14_BlobsAndTree ==
    /\ \A b \in 1..Len(blobs) :
          IF b \in {TreeFiles(1)[path] : path \in DOMAIN TreeFiles(1)}
          THEN OwnersOf(b) = {}
          ELSE Cardinality(OwnersOf(b)) = 1
    /\ \A i \in Runs :
          LET op == ops[i] IN
          /\ Len(op.treeEntries) <= Len(op.files)
          /\ \A k \in 1..Len(op.treeEntries) :
                LET file == op.files[k]
                    blob == blobs[op.treeEntries[k].sha]
                IN /\ op.treeEntries[k].path = file.path
                   /\ blob.content = file.content
                   /\ blob.encoding = IF file.encoding = NoEncoding THEN "utf-8"
                                       ELSE file.encoding
                   /\ blob.encoding = IF file.content.t = "jpeg" THEN "base64"
                                       ELSE "utf-8"
          /\ op.newTree # 0 =>
                /\ Len(op.treeEntries) = Len(op.files)
                /\ trees[op.newTree].tree = op.treeEntries
                /\ \A k \in 1..Len(op.files) :
                      TreeFiles(op.newTree)[op.files[k].path] = op.treeEntries[k].sha

\* a submission with a photo has its tree: a base64 blob and two utf-8 blobs
C14_Witness ==
    \E i \in Submits :
       /\ ops[i].newTree # 0
       /\ Len(ops[i].treeEntries) = 3
       /\ blobs[ops[i].treeEntries[1].sha].encoding = "base64"
       /\ blobs[ops[i].treeEntries[3].sha].encoding = "utf-8"

\* ---------------------------------------------------------------- C15
\* C15: once experiment X has been created by createNewExperiment and an
\* entry has been submitted successfully for X, the index the browsing view
\* loads for X is the entries/index.json createNewExperiment created, it
\* lists the entry's file name, and the entry document is at the path the
\* view fetches it from.
C15_ReaderSeesEntry ==
    \A i \in Submits :
       (Succeeded(i) /\ Exists(ops[i].refBefore, NewIndexPath(ops[i].exp))) =>
          LET x == ops[i].exp
              name == ops[i].entryFilename
              c == ops[i].refAfter
          IN /\ LoadedIndexPath(x) = NewIndexPath(x)
             /\ name \in LoadedFilenames(c, x)
             /\ Exists(c, LoadedEntryPath(x, name))
             /\ name \in LoadEntries(c, x)

\* ---------------------------------------------------------------- C16
\* the paths of the entry documents at commit c, and the image paths an entry
\* document references
EntriesAt(c) == {path \in DOMAIN FilesAt(c) : path.kind = "entries/"}
ImagesOf(c, path) == SeqToSet(DocAt(c, path).list)

\* C16: at the head no image path is referenced by two entry documents, and
\* a submission that lands writes no image path that an entry document of the
\* head it lands on references.  (Stated for the runs in which no index read
\* failed: the claim fails even for those.)
C16_ImageOwnership ==
    (\A i \in Submits : ops[i].read = NoResponse \/ ReadAnswered(i)) =>
       /\ \A e, f \in EntriesAt(ref) :
             e # f => ImagesOf(ref, e) \cap ImagesOf(ref, f) = {}
       /\ \A i \in Submits : Succeeded(i) =>
             \A e \in EntriesAt(ops[i].refBefore) :
                ImagesOf(ops[i].refBefore, e) \cap SeqToSet(ops[i].imagePaths) = {}

\* ---------------------------------------------------------------- C17
\* getFileContent returned null for the read of run i: the run went on with
\* an empty list although the answer was not the document
ReturnedNull(i) ==
    /\ ops[i].read # NoResponse
    /\ ~Ok(ops[i].read)
    /\ ~(ops[i].outcome = "failed" /\ ops[i].calls = <<>>)

\* C17: getFileContent returns null exactly when the read was answered with
\* status 404 and throws for every other failed answer, whatever its body; so
\* a run takes the list for empty only when the file is not there, and any
\* other failure of the read ends the run before a remote call of commitFiles
\* is made.
C17_NullOnlyOn404 ==
    \A i \in Runs : ops[i].read # NoResponse =>
       /\ ReturnedNull(i) <=> ops[i].read.status = 404
       /\ ops[i].read.status \notin {200, 404} =>
             ops[i].outcome = "failed" /\ ops[i].calls = <<>>

\* ---------------------------------------------------------------- C18
\* a submit event that found the settings or the form incomplete
Incomplete(a) ==
    a.made /\ (a.token = "" \/ a.owner = "" \/ a.exp = "" \/ a.date = NoDate)

\* the three messages of the validation
ValidationMessages ==
    {"Please configure your GitHub token in Settings first.",
     "Please select an experiment.", "Please enter a date."}

\* C18: a submit event with the token or the owner empty, with no experiment
\* selected or with the date empty issues no remote request and begins no run,
\* leaves the submit button and the selected photos as they were, and shows
\* one error message in place of the progress list.
C18_InvalidSubmitDoesNothing ==
    [][\A p \in Pages :
          (attempt'[p] # attempt[p] /\ Incomplete(attempt'[p])) =>
             /\ ops' = ops /\ remote' = remote
             /\ pc' = pc /\ cur' = cur
             /\ disabled' = disabled
             /\ selectedFiles' = selectedFiles
             /\ Len(progress'[p]) = 1
             /\ progress'[p][1] \in ValidationMessages]_vars

\* a token without an owner was refused with the photos still selected, the
\* button enabled and no run begun
C18_Witness ==
    /\ attempt[1].made /\ attempt[1].token # "" /\ attempt[1].owner = ""
    /\ attempt[1].exp # "" /\ attempt[1].date # NoDate
    /\ selectedFiles[1] > 0
    /\ ~disabled[1]
    /\ ops = <<>>
    /\ progress[1] = <<"Please configure your GitHub token in Settings first.">>

\* ---------------------------------------------------------------- C19
\* the submissions of page p that passed the validation and have not ended
InFlight(p) ==
    {i \in Submits : ops[i].page = p /\ ops[i].outcome = "running"}

\* C19: the submit button of a page is disabled exactly while a submission of
\* that page is between its validation and its end, so it is enabled again
\* after every submission, failed at whatever step or succeeded; and a page
\* never has two submissions in flight.
C19_ButtonLifecycle ==
    \A p \in Pages :
       /\ disabled[p] <=> InFlight(p) # {}
       /\ Cardinality(InFlight(p)) <= 1
       /\ \A i \in InFlight(p) : cur[p] = i

\* page 1 had a submission that failed inside commitFiles and then one that
\* succeeded, and its button is enabled again
C19_Witness ==
    /\ \E i \in Submits :
          ops[i].page = 1 /\ ops[i].outcome = "failed" /\ ops[i].calls # <<>>
    /\ \E i \in Submits : ops[i].page = 1 /\ Succeeded(i)
    /\ ~disabled[1]

\* ---------------------------------------------------------------- C20
\* a submission of page p ends in this step: with success, with a failure
EndsOk(p) ==
    \E i \in Submits :
        ops[i].page = p /\ ops[i].outcome = "running" /\ ops'[i].outcome = "ok"
EndsFailed(p) ==
    \E i \in Submits :
        ops[i].page = p /\ ops[i].outcome = "running" /\ ops'[i].outcome = "failed"

\* C20: a step of a submission empties the selected photos and the notes and
\* measurement fields only when it is the step that ends the submission with
\* success; the step at which a submission fails, like every step before the
\* end, leaves both as they were.
C20_FormClearedOnlyOnSuccess ==
    [][\A p \in Pages :
          /\ EndsOk(p) => selectedFiles'[p] = 0 /\ fields'[p] = ""
          /\ EndsFailed(p) =>
                selectedFiles'[p] = selectedFiles[p] /\ fields'[p] = fields[p]
          /\ (ops' # ops /\ ~EndsOk(p)) =>
                selectedFiles'[p] = selectedFiles[p] /\ fields'[p] = fields[p]]_vars

\* a submission with a photo and typed fields failed inside commitFiles and
\* the form still holds both
C20_Witness ==
    /\ \E i \in Submits :
          /\ ops[i].page = 1 /\ ops[i].outcome = "failed"
          /\ ops[i].calls # <<>> /\ ops[i].imagePaths # <<>>
    /\ pc[1] = "idle" /\ ~disabled[1]
    /\ progress[1][Len(progress[1])] = "Error"
    /\ selectedFiles[1] > 0
    /\ fields[1] = "typed"

\* ---------------------------------------------------------------- C21
Creates == {i \in Runs : ops[i].kind = "create"}

\* the ids of a list are pairwise distinct
Distinct(list) == \A j, k \in 1..Len(list) : j # k => list[j] # list[k]

\* how often id is in a list
Count(list, id) == Cardinality({k \in 1..Len(list) : list[k] = id})

\* C21: the in-memory list of the window holds, besides what it was loaded
\* with, one element for every creation whose commit succeeded and none for
\* any other; a creation that read its id in experiments.json made no remote
\* call of commitFiles; and, however the submissions of the dialog overlap,
\* the ids are pairwise distinct in experiments.json at the head and in the
\* in-memory list.  (Stated for the runs whose read of experiments.json was
\* answered with the document or with 404: the claim fails even for those.)
C21_ListedIffCommitted ==
    (\A i \in Creates : ops[i].read = NoResponse \/ ReadAnswered(i)) =>
       /\ \A id \in NewIds :
             Count(experiments[Window], id) =
                Count(<<"a">>, id)
                + Cardinality({i \in Creates : Succeeded(i) /\ ops[i].exp = id})
       /\ \A i \in Creates :
             (ops[i].read # NoResponse /\ ops[i].exp \in SeqToSet(ops[i].existingIndex))
                => ops[i].outcome = "duplicate" /\ ops[i].calls = <<>>
       /\ Distinct(ListAt(ref))
       /\ Distinct(experiments[Window])

\* ---------------------------------------------------------------- C22
\* C22: when the load of experiments.json fails during init, init ends with
\* #content showing 'Could not load experiments.' and the error's message,
\* whatever the location hash is.
C22_LoadErrorShown ==
    [][(~ready /\ ready' /\ initError' # "") =>
          contentEl' = CouldNotLoad(initError')]_vars

\* ---------------------------------------------------------------- C23
\* C23: whatever the order of navigations and of the completions of
\* loadEntries, the detail view of an experiment shows in its entries area
\* and in its chart only what was loaded for that experiment.
C23_ViewShowsCurrent ==
    contentEl.kind = "detail" =>
       /\ entriesArea.of = contentEl.exp
       /\ chartArea.chart \in {"", contentEl.exp}

\* ---------------------------------------------------------------- C24
\* the list view is the one displayed: the cards, or the text for no cards
ListDisplayed(c) == c.kind \in {"list", "empty"}

\* C24: currentExperiment is set exactly when #content shows the detail view
\* of an experiment, and the search bar is hidden exactly then; and a step in
\* which typing into the search box renders the list is a step from the list
\* view.
C24_ViewState ==
    /\ [](/\ currentExperiment # "" <=> contentEl.kind = "detail"
          /\ searchBarHidden <=> contentEl.kind = "detail")
    /\ [][(query' # query /\ contentEl' # contentEl /\ ListDisplayed(contentEl'))
             => ListDisplayed(contentEl)]_vars

\* ---------------------------------------------------------------- C25
\* the request in flight is answered by networkFirst, and this step is the
\* one in which its fetch returns a response
NetworkFirstReturns ==
    /\ request # NoRequest /\ request.stage = "networkFirst"
    /\ answer'.from = "network"

\* the answer is one networkFirst gave to a request that was made, and
\* fetched, while the network was unavailable
AnsweredOffline ==
    /\ answer.from # "none"
    /\ answer.controlled /\ Strategy(answer.req) = "networkFirst"
    /\ answer.offline

\* C25: networkFirst stores only ok responses; a response that is not ok is
\* returned as it came and neither replaces the cached copy nor starts a put;
\* and once networkFirst has returned an ok response for a URL, a request for
\* that URL made while the network is unavailable is answered with that most
\* recent response, not with an older one.
C25_NetworkFirstPolicy ==
    /\ [][NetworkFirstReturns =>
             /\ puts' # puts => answer'.status = 200
             /\ answer'.status # 200 =>
                   /\ cache' = cache /\ puts' = puts
                   /\ answer'.status = 500 /\ answer'.version = version]_vars
    /\ []((AnsweredOffline /\ latest[answer.req.url] # 0) =>
             /\ answer.from = "cache"
             /\ answer.version = latest[answer.req.url])

\* ---------------------------------------------------------------- C26
\* the two classes of GET requests the header comment of sw.js names
CdnOrIcons(r) ==
    /\ r.method = "GET"
    /\ \/ r.url.host \notin {Self, GitHub}
       \/ r.url.host = Self /\ \E k \in 1..(Len(r.url.path) - 1) : r.url.path[k] = "icons"
ShellOrData(r) ==
    /\ r.method = "GET" /\ r.url.host = Self
    /\ \A k \in 1..(Len(r.url.path) - 1) : r.url.path[k] # "icons"

\* C26: the activated worker answers a GET to another host than its own and
\* api.github.com, or for a path with /icons/, cache-first: when a response
\* for it is cached it is answered from the cache and never fetched; it
\* answers every other GET to its own host network-first: the cache is
\* consulted only after a fetch was tried and failed.
C26_StrategySelection ==
    [][/\ (request = NoRequest /\ request' # NoRequest /\ request'.controlled) =>
             /\ CdnOrIcons(request'.req) => request'.stage = "cacheFirst"
             /\ ShellOrData(request'.req) => request'.stage = "networkFirst"
       /\ (request # NoRequest /\ request' # request /\ request.controlled
              /\ CdnOrIcons(request.req) /\ request.stage = "cacheFirst"
              /\ cache[request.req.url] # 0) =>
             /\ request' = NoRequest
             /\ answer'.from = "cache" /\ answer'.version = cache[request.req.url]
       /\ (request # NoRequest /\ request' # request /\ request.controlled
              /\ ShellOrData(request.req)) =>
             /\ answer'.from \in {"cache", "offline"} =>
                   request.stage = "networkFirstCatch"
             /\ request.stage = "networkFirst" =>
                   \/ online /\ answer'.from = "network"
                   \/ ~online /\ request'.stage = "networkFirstCatch"]_vars

\* the icon was answered from the cache with the network available and a
\* newer version deployed, and the page was answered from the network
C26_Witness ==
    /\ answer.from = "cache" /\ answer.controlled
    /\ answer.req = Req("GET", Icon192)
    /\ ~answer.offline /\ online
    /\ answer.version < version
    /\ latest[IndexHtml] = version

\* ---------------------------------------------------------------- C27
\* C27: the step that completes activation deletes every cache whose name is
\* not CACHE_NAME and leaves the cache CACHE_NAME, which install opened, and
\* its contents as they were, whatever caches there were before.
C27_ActivateCleansUp ==
    [][(swState # "activated" /\ swState' = "activated") =>
          /\ cacheNames' = cacheNames \cap {CACHE_NAME}
          /\ CACHE_NAME \in cacheNames'
          /\ cache' = cache]_vars

\* the worker is activated, only its own cache is left and holds the app
\* shell
C27_Witness ==
    /\ swState = "activated"
    /\ cacheNames = {CACHE_NAME}
    /\ \A u \in APP_SHELL : cache[u] # 0

\* ---------------------------------------------------------------- C28
\* an item is stored under key and is not the empty string
NonEmpty(key) == localStorage[key] # <<>> /\ localStorage[key] # <<"">>

\* C28: isConfigured() is true exactly when the stored token and the stored
\* owner are both non-empty; getRepo() is 'hydro_journal' as long as no repo
\* is stored and the stored repo once one is; clearToken removes the token
\* and leaves owner and repo as they were; and validate() without a stored
\* token returns an invalid result and requests nothing.
C28_TokenStore ==
    /\ [](/\ IsConfigured(GetToken(localStorage), GetOwner(localStorage))
                <=> (NonEmpty(STORAGE_KEY) /\ NonEmpty(OWNER_KEY))
          /\ localStorage[REPO_KEY] = <<>> => GetRepo(localStorage) = "hydro_journal"
          /\ NonEmpty(REPO_KEY) => <<GetRepo(localStorage)>> = localStorage[REPO_KEY])
    /\ [][/\ (localStorage[STORAGE_KEY] # <<>> /\ localStorage'[STORAGE_KEY] = <<>>) =>
                /\ localStorage'[OWNER_KEY] = localStorage[OWNER_KEY]
                /\ localStorage'[REPO_KEY] = localStorage[REPO_KEY]
          /\ userFetches' > userFetches => NonEmpty(STORAGE_KEY)
          /\ (validation' # validation /\ userFetches' = userFetches) =>
                /\ ~NonEmpty(STORAGE_KEY)
                /\ ~validation'.valid
                /\ validation'.error = "No token configured"]_vars

\* the token was cleared while validate() was waiting for its answer, owner
\* and repo are still stored, and validate() was then refused without a
\* request
C28_Witness ==
    /\ localStorage[STORAGE_KEY] = <<>>
    /\ localStorage[OWNER_KEY] = <<"w">>
    /\ localStorage[REPO_KEY] = <<"w">>
    /\ userFetches = 1
    /\ validation = Invalid("No token configured")
    /\ ~IsConfigured(GetToken(localStorage), GetOwner(localStorage))

====
